---- MODULE Spec2Model ----
(***************************************************************************)
(* PDF generator worker (src/src/index.ts): the fetch handler, the hybrid   *)
(* in-memory + KV rate limiter, the lazy cache janitor and the single-slot  *)
(* browser coordinator with its waiter queue, as one state machine.         *)
(*                                                                          *)
(* A request is a coroutine: it runs synchronously from one await to the    *)
(* next, so every action below is the code between two suspension points.   *)
(* Times are milliseconds, as Date.now() returns them.                      *)
(***************************************************************************)
EXTENDS Integers, Sequences, FiniteSets, Bags, TLC

(* ---- program constants ---- *)
maxRequests == 20
windowMs == 60000
SYNC_INTERVAL == 30000
CLEANUP_INTERVAL == 300000
GRACE_MS == 60000
UPSTREAM_RETRY_AFTER == 60

\* the size limit of the cache the janitor is documented to enforce
MAX_CACHE_SIZE == 1000
DOC_SYNC_INTERVAL == 10000 \* the sync interval the setup guide documents

(* ---- bounds of the model ---- *)
NumReqs == 3        \* request coroutines that can be in flight at once
NumIds == 1         \* client identifiers (CF-Connecting-IP values)
StartTime == 300000 \* Date.now() when the isolate is loaded
MaxK == 2           \* the clock is followed closely for MaxK half-windows
MaxSessions == 2    \* browser sessions the provider hands out
WaitUntilLimit == 30000 \* how long the runtime lets a ctx.waitUntil task run
RaceReqs == 2       \* overlapping calls in the rate limiter's race scenario
MaxRestarts == 1    \* times the isolate is dropped and loaded anew
QueueBudget == 4    \* requests admitted in the queue-liveness scenario
CoordBudget == 10   \* requests admitted in the coordinator scenario
MaxOthers == 1      \* entries of other clients the Map holds besides the one followed

Reqs == 1..NumReqs
Ids == 1..NumIds
ObjIds == 1..(NumIds + NumReqs)
Sessions == 1..MaxSessions

\* The instants the clock visits: both sides of every half-window boundary,
\* so that each strict/non-strict comparison of the code is met with
\* equality and with a difference of one millisecond.
\* and then the first instant at which the janitor sweeps again.
Times ==
  {StartTime + (windowMs \div 2) * k : k \in 0..MaxK}
    \cup {StartTime + (windowMs \div 2) * k + 1 : k \in 1..MaxK}
    \cup {StartTime + CLEANUP_INTERVAL}

\* The instants the clock visits where a sweep meets a window that is still
\* running: both sides of the first half-window boundary, half a window
\* before the janitor sweeps again, and the instant it does.
SweepTimes ==
  {StartTime + windowMs \div 2, StartTime + windowMs \div 2 + 1,
   StartTime + CLEANUP_INTERVAL - windowMs \div 2, StartTime + CLEANUP_INTERVAL}

VARIABLES
  now,              \* Date.now()
  rateLimitCache,   \* Map key -> entry object (0: no entry), by identifier
  objs,             \* the entry objects {count, resetTime, lastSync}
  idleEntries,      \* the Map's entries of the clients that send nothing now:
                    \* a bag of resetTimes
  lastCleanupTime,
  kv,               \* RATE_LIMIT_KV: per key, {} or {[count, resetTime]}
  bgWrites,         \* puts handed to ctx.waitUntil and not yet completed
  cachedBrowser,    \* 0: null
  browserInUse,
  browserQueue,     \* waiters, oldest first
  valid,            \* sessions whose version() probe still succeeds
  nextSession,      \* next session the provider launches
  req,              \* per request coroutine: position and locals
  admitted,         \* history: per identifier, resetTime -> allowed returns
  winBase,          \* history: per identifier, resetTime -> count the window was created with
  lastRej,          \* history: per identifier, the last client 429 {resetTime, retryAfter}
  capacityRejectedAt, \* history: when a launch was last refused for capacity (-1: never)
  lastIntervalPut,  \* history: per identifier, when a put was last handed to
                    \* ctx.waitUntil, while within SYNC_INTERVAL of now (-1: none)
  restarts          \* how many times the isolate has been loaded anew

rlVars == <<rateLimitCache, objs, idleEntries, lastCleanupTime, kv, bgWrites>>
brVars == <<cachedBrowser, browserInUse, browserQueue, valid, nextSession>>
histVars == <<admitted, winBase, lastRej, capacityRejectedAt, lastIntervalPut, restarts>>
vars == <<now, rlVars, brVars, req, histVars>>

(* ---- origins and CORS headers ---- *)
\* line 27
allowedOrigins == <<"http://localhost:3000", "https://www.getinvoify.com">>

\* request.headers.get("Origin"): absent, or some origin
NoOrigin == ""
Origins == {NoOrigin, "http://localhost:3000", "https://www.getinvoify.com",
            "https://elsewhere.example"}

\* any origin echoed back
ResolveOriginEcho(o) == IF o # NoOrigin THEN o ELSE allowedOrigins[1]

\* line 248: the origin the responses are addressed to
ResolveOrigin(o) ==
  IF o # NoOrigin /\ (\E k \in DOMAIN allowedOrigins : allowedOrigins[k] = o)
  THEN o ELSE allowedOrigins[1]

\* the three access-control headers the claims look at ("": header absent)
NoHeaders == [acao |-> "", acac |-> "", expose |-> ""]

\* lines 30-39: the headers of the preflight response
handleOptions(allowedOrigin) ==
  [acao |-> allowedOrigin, acac |-> "true", expose |-> ""]

\* the credentials header left out
addCorsHeadersNoCredentials(h, allowedOrigin) ==
  [h EXCEPT !.acao = allowedOrigin, !.expose = "*"]

\* lines 42-47
addCorsHeaders(h, allowedOrigin) ==
  [h EXCEPT !.acao = allowedOrigin, !.acac = "true", !.expose = "*"]

\* the headers of a response by the path that made it: handleOptions for the
\* preflight (line 252), addCorsHeaders on every other return of fetch (lines
\* 263, 273, 282, 311, 341, 358, 376, 390, 412), none when fetch throws
ResponseHeaders(kind, o) ==
  CASE kind = "preflight" -> handleOptions(ResolveOrigin(o))
    [] kind = "uncaught" -> NoHeaders
    [] OTHER -> addCorsHeaders(NoHeaders, ResolveOrigin(o))

(* ---- values ---- *)
FreeObj == [count |-> 0, resetTime |-> 0, lastSync |-> 0]

IdleReq ==
  [pc |-> "idle", id |-> 0, now |-> 0, ref |-> 0,
   allowed |-> FALSE, remaining |-> 0, resetTime |-> 0,
   put |-> {}, didPut |-> FALSE, pre |-> {}, kvFailed |-> FALSE,
   status |-> 0, kind |-> "", retryAfter |-> 0,
   browser |-> 0, acquired |-> FALSE, via |-> "", releases |-> 0,
   page |-> "none", closed |-> FALSE, err |-> <<>>,
   origin |-> NoOrigin, hdr |-> NoHeaders]

\* Math.ceil(x / 1000) for an integer x of either sign
CeilSeconds(x) == -((-x) \div 1000)

Max(a, b) == IF a >= b THEN a ELSE b

Range(f) == {f[x] : x \in DOMAIN f}

\* The entry objects still reachable: from the Map or from a suspended call's
\* local `cached`. Unreachable objects are garbage and hold nothing.
Collect(o, c, q) ==
  [k \in ObjIds |->
     IF k \in Range(c) \cup {q[r].ref : r \in Reqs} THEN o[k] ELSE FreeObj]

\* A fresh object for `cached = {...}` (lines 178, 183, 190)
Alloc(c, q) ==
  CHOOSE k \in ObjIds :
    /\ k \notin Range(c) \cup {q[r].ref : r \in Reqs}
    /\ \A j \in ObjIds :
         j \notin Range(c) \cup {q[r].ref : r \in Reqs} => k <= j

(* ---- cache janitor ---- *)
\* a sweep on every call
SweepOnEveryCall(t) == FALSE

\* line 70: the early return
SweepNotDue(t) == t - lastCleanupTime < CLEANUP_INTERVAL

\* an entry deleted as soon as its window is over
ExpiredWithoutGrace(e, t) == t > e.resetTime

\* line 76: the entry's window ended more than the grace period ago
Expired(e, t) == t > e.resetTime + GRACE_MS

\* a sweep that empties the Map
cleanupAllIfNeeded(t) ==
  IF SweepNotDue(t) THEN rateLimitCache ELSE [i \in Ids |-> 0]

\* lines 65-81: the Map after cleanupExpiredCacheIfNeeded() at time t
cleanupExpiredCacheIfNeeded(t) ==
  IF SweepNotDue(t) THEN rateLimitCache
  ELSE [i \in Ids |->
          IF rateLimitCache[i] # 0 /\ Expired(objs[rateLimitCache[i]], t)
          THEN 0 ELSE rateLimitCache[i]]

\* lines 75-80 on the entries of the clients that send nothing now
SweptIdleEntries(t) ==
  IF SweepNotDue(t) THEN idleEntries
  ELSE [R \in {x \in DOMAIN idleEntries : ~Expired([resetTime |-> x], t)} |->
          idleEntries[R]]

\* rateLimitCache.size
CacheSize ==
  Cardinality({i \in Ids : rateLimitCache[i] # 0}) + BagCardinality(idleEntries)

\* lines 70-74: lastCleanupTime after the call
CleanupTimeAfter(t) == IF SweepNotDue(t) THEN lastCleanupTime ELSE t

(* ---- rate limiter: the pure pieces of checkRateLimit ---- *)
\* a record that ends at this very millisecond taken as over
KvValidBeforeEnd(d, t) == t < d.resetTime

\* line 176: the KV record is adopted
KvValid(d, t) == t <= d.resetTime

\* the durable count dropped on adoption
AdoptedEntryCountLost(d, t) == [count |-> 0, resetTime |-> d.resetTime, lastSync |-> t]

\* lines 178 / 183 / 190: the entry created on a cache miss
AdoptedEntry(d, t) == [count |-> d.count, resetTime |-> d.resetTime, lastSync |-> t]
FreshEntry(t) == [count |-> 0, resetTime |-> t + windowMs, lastSync |-> t]

\* the rollover left out
WindowNeverExpired(e, t) == FALSE

\* line 193: a cached window that has expired
WindowExpired(e, t) == t > e.resetTime

\* the limit compared with the count before the increment
ExceedsBeforeIncrement(e) == e.count > maxRequests

\* lines 201-204: count++ ; count > maxRequests
Exceeds(e) == e.count + 1 > maxRequests

\* the decrement left out
NotRestoredEntry(before, incremented) == incremented

\* line 206: count-- puts back the entry as it was before the increment
RestoredEntry(before, incremented) == before

\* a put on every admitted call
shouldSyncAlways(e, t) == TRUE

\* lines 210-212, on the entry after the increment
shouldSync(e, t) == t - e.lastSync > SYNC_INTERVAL
isNearLimit(e) == e.count * 10 >= maxRequests * 8
isFirstRequest(e) == e.count = 1

\* every put handed to ctx.waitUntil
PutNeverAwaited(e) == FALSE

\* line 229: the put is awaited before checkRateLimit returns
PutAwaited(e) == isFirstRequest(e) \/ isNearLimit(e)

\* line 222: the value written to KV
KvValue(e) == [count |-> e.count, resetTime |-> e.resetTime]

\* the wait time without its floor of one second
RetryAfterUnclamped(resetTime, t) == CeilSeconds(resetTime - t)

\* line 293
RetryAfter(resetTime, t) == Max(1, CeilSeconds(resetTime - t))

\* a response, once made, is sent before anything else happens: the
\* coroutine that made it has nothing left to do
Settled == \A r \in Reqs : req[r].pc # "done"

(* ---- history bookkeeping (not program state) ---- *)
Bump(f, R) == IF R \in DOMAIN f THEN [f EXCEPT ![R] = @ + 1] ELSE f @@ (R :> 1)
SetBase(f, R, b) == IF R \in DOMAIN f THEN [f EXCEPT ![R] = b] ELSE f @@ (R :> b)

\* The earliest `now` a call that has not yet created its window can hold
MinNow ==
  LET S == {now} \cup {req[r].now : r \in {x \in Reqs : req[x].pc = "kvGet"}}
  IN CHOOSE m \in S : \A x \in S : m <= x

\* A later call of identifier i can still return resetTime R: R is held by an
\* entry object, by the KV record, by a write in flight or by a result not yet
\* consumed, or a fresh window can still be created with it.
LiveWindow(i, R) ==
  \/ R >= MinNow + windowMs
  \/ \E k \in ObjIds : objs[k].resetTime = R
  \/ \E d \in kv[i] : d.resetTime = R
  \/ \E w \in bgWrites : w.id = i /\ w.val.resetTime = R
  \/ \E r \in Reqs :
       /\ req[r].id = i
       /\ \/ \E d \in req[r].put : d.resetTime = R
          \/ req[r].pc = "rlDone" /\ req[r].resetTime = R

\* The history is kept for live windows only; a window that is over for good
\* can never be returned again and is forgotten.
Record(adm, wb, lr) ==
  /\ admitted' = [i \in Ids |->
                    [R \in {x \in DOMAIN adm[i] : LiveWindow(i, x)'} |-> adm[i][R]]]
  /\ winBase' = [i \in Ids |->
                    [R \in {x \in DOMAIN wb[i] : LiveWindow(i, x)'} |-> wb[i][R]]]
  /\ lastRej' = [i \in Ids |-> {x \in lr[i] : LiveWindow(i, x.resetTime)'}]
  /\ lastIntervalPut' =
       [i \in Ids |->
          IF \E w \in bgWrites' \ bgWrites : w.id = i THEN now
          ELSE IF now' - lastIntervalPut[i] > SYNC_INTERVAL THEN -1
          ELSE lastIntervalPut[i]]
  /\ UNCHANGED <<capacityRejectedAt, restarts>>

(* ---- fetch: responses ---- *)
\* the locals of checkRateLimit are gone once fetch has consumed its result
Consumed(rq) == [rq EXCEPT !.now = 0, !.pre = {}, !.didPut = FALSE]

Respond(rq, status, kind, retryAfter) ==
  [Consumed(rq) EXCEPT !.pc = "done", !.ref = 0, !.put = {},
                       !.status = status, !.kind = kind, !.retryAfter = retryAfter,
                       !.hdr = ResponseHeaders(kind, rq.origin)]

\* an exception that leaves checkRateLimit leaves fetch too (line 290 is
\* outside the try block): the runtime answers with its own error page
Uncaught(rq) == Respond(rq, 500, "uncaught", 0)

\* checkRateLimit returns {allowed, remaining, resetTime}; fetch resumes at line 292
Returned(rq, a, rem, R) ==
  [rq EXCEPT !.pc = "rlDone", !.ref = 0, !.put = {},
             !.allowed = a, !.remaining = rem, !.resetTime = R]

\* remaining taken before the increment
ReturnedAllowedStale(rq, e) == Returned(rq, TRUE, maxRequests - e.count + 1, e.resetTime)

\* lines 237-241: the result of an admitted call, read from the entry object
ReturnedAllowed(rq, e) == Returned(rq, TRUE, maxRequests - e.count, e.resetTime)

\* line 207
ReturnedRejected(rq, e) == Returned(rq, FALSE, 0, e.resetTime)

(* ---- checkRateLimit ---- *)
\* the read error rethrown
KvReadErrorRethrown(t) == [thrown |-> TRUE, entry |-> FreshEntry(t)]

\* lines 186-192: the catch block of the KV read
KvReadError(t) == [thrown |-> FALSE, entry |-> FreshEntry(t)]

\* lines 174-185: the entry made from what RATE_LIMIT_KV.get returned
KvReadResult(data, t) ==
  [thrown |-> FALSE,
   entry |-> IF data # {} /\ \A d \in data : KvValid(d, t)
             THEN AdoptedEntry(CHOOSE d \in data : TRUE, t)
             ELSE FreshEntry(t)]

\* line 226: .catch on the put logs the error and resolves
KvWriteErrorThrown == FALSE

\* lines 200-242, from `cached.count++` to the return or to the awaited put.
\* rq: the caller's locals; k: the object `cached` refers to, holding e1; c1:
\* the Map. Sets req, rateLimitCache, objs and bgWrites.
IncrementAndDecide(r, rq, i, t, k, e1, c1) ==
  LET e2 == [e1 EXCEPT !.count = @ + 1]
      sync == isFirstRequest(e2) \/ shouldSync(e2, t) \/ isNearLimit(e2)
      e3 == IF sync THEN [e2 EXCEPT !.lastSync = t] ELSE e2
      awaited == PutAwaited(e2)
      rq1 == IF Exceeds(e1) THEN ReturnedRejected(rq, RestoredEntry(e1, e2))
             ELSE IF sync /\ awaited
               THEN [rq EXCEPT !.pc = "kvPut", !.ref = k, !.put = {KvValue(e3)},
                               !.didPut = TRUE]
             ELSE IF sync THEN [ReturnedAllowed(rq, e3) EXCEPT !.didPut = TRUE]
             ELSE ReturnedAllowed(rq, e3)
      q1 == [req EXCEPT ![r] = rq1]
      o1 == [objs EXCEPT ![k] = IF Exceeds(e1) THEN RestoredEntry(e1, e2) ELSE e3]
  IN /\ req' = q1
     /\ rateLimitCache' = c1
     /\ objs' = Collect(o1, c1, q1)
     /\ bgWrites' = IF ~Exceeds(e1) /\ sync /\ ~awaited
                    THEN bgWrites \cup {[id |-> i, val |-> KvValue(e3), at |-> t]}
                    ELSE bgWrites

\* history: the call of r has returned allowed=true for its window
AdmittedWith(r) ==
  IF req[r].pc # "rlDone" /\ req'[r].pc = "rlDone" /\ req'[r].allowed
  THEN [admitted EXCEPT ![req'[r].id] = Bump(@, req'[r].resetTime)]
  ELSE admitted

\* lines 286-290 and 164-198 on a cache hit: the janitor, then checkRateLimit
\* up to its first await (none on a hit unless a put is awaited).
\* lines 169-172 on a miss: the call suspends at RATE_LIMIT_KV.get.
BeginCheck(r, i, o) ==
  LET t == now
      c1 == cleanupExpiredCacheIfNeeded(t)
      k == c1[i]
      e0 == objs[k]
      e1 == IF WindowExpired(e0, t) THEN FreshEntry(t) ELSE e0
      rq == [req[r] EXCEPT !.id = i, !.now = t, !.origin = o,
                           !.pre = IF k = 0 THEN {} ELSE {e0}]
  IN /\ Settled
     /\ req[r].pc = "idle"
     /\ lastCleanupTime' = CleanupTimeAfter(t)
     /\ idleEntries' = SweptIdleEntries(t)
     /\ UNCHANGED <<now, kv, brVars>>
     /\ IF k = 0
        THEN /\ req' = [req EXCEPT ![r] = [rq EXCEPT !.pc = "kvGet"]]
             /\ rateLimitCache' = c1
             /\ objs' = Collect(objs, c1, req')
             /\ UNCHANGED bgWrites
             /\ Record(admitted, winBase, lastRej)
        ELSE /\ IncrementAndDecide(r, rq, i, t, k, e1, c1)
             /\ Record(AdmittedWith(r),
                       IF WindowExpired(e0, t)
                       THEN [winBase EXCEPT ![i] = SetBase(@, e1.resetTime, 0)]
                       ELSE winBase,
                       lastRej)

\* lines 174-192: RATE_LIMIT_KV.get returns (ok) or throws; `now` is still the
\* value read at line 165.
KvGetReturn(r, ok) ==
  LET i == req[r].id
      t == req[r].now
      got == IF ok THEN KvReadResult(kv[i], t) ELSE KvReadError(t)
      e1 == got.entry
      k == Alloc(rateLimitCache, req)
      c1 == [rateLimitCache EXCEPT ![i] = k]
      rq == [req[r] EXCEPT !.kvFailed = ~ok]
  IN /\ Settled
     /\ req[r].pc = "kvGet"
     /\ UNCHANGED <<now, idleEntries, lastCleanupTime, kv, brVars>>
     /\ IF got.thrown
        THEN /\ req' = [req EXCEPT ![r] = Uncaught(rq)]
             /\ UNCHANGED <<rateLimitCache, objs, bgWrites>>
             /\ Record(admitted, winBase, lastRej)
        ELSE /\ IncrementAndDecide(r, rq, i, t, k, e1, c1)
             /\ Record(AdmittedWith(r),
                       [winBase EXCEPT ![i] = SetBase(@, e1.resetTime, e1.count)],
                       lastRej)

\* lines 226-241: the awaited put completes (ok) or fails and is swallowed by
\* .catch; the result is then read from the entry object.
KvPutReturn(r, ok) ==
  LET i == req[r].id
      rq == [req[r] EXCEPT !.kvFailed = @ \/ ~ok]
      rq1 == IF ~ok /\ KvWriteErrorThrown THEN Uncaught(rq)
             ELSE ReturnedAllowed(rq, objs[req[r].ref])
      q1 == [req EXCEPT ![r] = rq1]
  IN /\ Settled
     /\ req[r].pc = "kvPut"
     /\ kv' = IF ok THEN [kv EXCEPT ![i] = req[r].put] ELSE kv
     /\ req' = q1
     /\ objs' = Collect(objs, rateLimitCache, q1)
     /\ UNCHANGED <<now, rateLimitCache, idleEntries, lastCleanupTime, bgWrites, brVars>>
     /\ Record(AdmittedWith(r), winBase, lastRej)

\* lines 226, 233: a put handed to ctx.waitUntil completes or fails
BackgroundPutDone(w, ok) ==
  /\ Settled
  /\ w \in bgWrites
  /\ bgWrites' = bgWrites \ {w}
  /\ kv' = IF ok THEN [kv EXCEPT ![w.id] = {w.val}] ELSE kv
  /\ UNCHANGED <<now, rateLimitCache, objs, idleEntries, lastCleanupTime, brVars, req>>
  /\ Record(admitted, winBase, lastRej)

(* ---- fetch ---- *)
\* The messages of the errors puppeteer.launch rejects with, as sequences of
\* words.
ErrorMessages ==
  {<<"Unable", "to", "create", "new", "browser:", "code:", "429">>,
   <<"Rate", "limit", "exceeded">>,
   <<"rate", "limit", "exceeded">>,
   <<"Unable", "to", "create", "new", "browser">>}

\* String.prototype.includes, word by word
Includes(msg, phrase) ==
  \E k \in 0..(Len(msg) - Len(phrase)) :
    SubSeq(msg, k + 1, k + Len(phrase)) = phrase

\* String.prototype.toLowerCase on the words launch errors are made of
Lower(w) ==
  CASE w = "Rate" -> "rate"
    [] w = "Unable" -> "unable"
    [] OTHER -> w

LowerCase(msg) == [k \in DOMAIN msg |-> Lower(msg[k])]

\* the provider refused the launch for capacity: the message names the status
\* 429 or holds the phrase "rate limit" in any letter case
IsCapacityRejection(msg) ==
  Includes(msg, <<"429">>) \/ Includes(LowerCase(msg), <<"rate", "limit">>)

\* line 324: the launch error is an upstream rate-limit error
IsBrowserRateLimit(msg) ==
  Includes(msg, <<"429">>) \/ Includes(msg, <<"Rate", "limit", "exceeded">>)

\* lines 321-345 and 363-412: the response to a failed acquireBrowser
AcquireFailed(rq, msg) ==
  IF IsBrowserRateLimit(msg)
  THEN Respond([rq EXCEPT !.err = msg], 429, "upstream", UPSTREAM_RETRY_AFTER)
  ELSE Respond([rq EXCEPT !.err = msg], 500, "error", 0)

\* the janitor called before the method is looked at
PreflightAfterSweep(r, o) ==
  /\ Settled
  /\ req[r].pc = "idle"
  /\ req' = [req EXCEPT ![r] = Respond([@ EXCEPT !.origin = o], 200, "preflight", 0)]
  /\ rateLimitCache' = cleanupExpiredCacheIfNeeded(now)
  /\ lastCleanupTime' = CleanupTimeAfter(now)
  /\ idleEntries' = SweptIdleEntries(now)
  /\ objs' = Collect(objs, rateLimitCache', req')
  /\ UNCHANGED <<now, kv, bgWrites, brVars, histVars>>

\* lines 251-253
Preflight(r, o) ==
  /\ Settled
  /\ req[r].pc = "idle"
  /\ req' = [req EXCEPT ![r] = Respond([@ EXCEPT !.origin = o], 200, "preflight", 0)]
  /\ UNCHANGED <<now, rlVars, brVars, histVars>>

\* lines 255-264
MethodNotAllowed(r, o) ==
  /\ Settled
  /\ req[r].pc = "idle"
  /\ req' = [req EXCEPT ![r] = Respond([@ EXCEPT !.origin = o], 405, "method", 0)]
  /\ UNCHANGED <<now, rlVars, brVars, histVars>>

\* the janitor called before the token is checked
UnauthorizedAfterSweep(r, o) ==
  /\ Settled
  /\ req[r].pc = "idle"
  /\ req' = [req EXCEPT ![r] = Respond([@ EXCEPT !.origin = o], 401, "auth", 0)]
  /\ rateLimitCache' = cleanupExpiredCacheIfNeeded(now)
  /\ lastCleanupTime' = CleanupTimeAfter(now)
  /\ idleEntries' = SweptIdleEntries(now)
  /\ objs' = Collect(objs, rateLimitCache', req')
  /\ UNCHANGED <<now, kv, bgWrites, brVars, histVars>>

\* lines 266-283
Unauthorized(r, o) ==
  /\ Settled
  /\ req[r].pc = "idle"
  /\ req' = [req EXCEPT ![r] = Respond([@ EXCEPT !.origin = o], 401, "auth", 0)]
  /\ UNCHANGED <<now, rlVars, brVars, histVars>>

\* lines 292-312: the client 429, Retry-After from a new Date.now()
RateLimited(r) ==
  LET ra == RetryAfter(req[r].resetTime, now) IN
  /\ Settled
  /\ req[r].pc = "rlDone"
  /\ ~req[r].allowed
  /\ req' = [req EXCEPT ![r] = Respond(@, 429, "client", ra)]
  /\ UNCHANGED <<now, rlVars, brVars>>
  /\ Record(admitted, winBase,
            [lastRej EXCEPT ![req[r].id] =
               {[resetTime |-> req[r].resetTime, retryAfter |-> ra]}])

\* the count given back when the body is refused
BadBodyRefunded(r) ==
  LET k == rateLimitCache[req[r].id]
      q1 == [req EXCEPT ![r] = Respond(@, 400, "body", 0)]
  IN /\ Settled
     /\ req[r].pc = "rlDone"
     /\ req[r].allowed
     /\ req' = q1
     /\ objs' = Collect(IF k = 0 THEN objs ELSE [objs EXCEPT ![k].count = @ - 1],
                        rateLimitCache, q1)
     /\ UNCHANGED <<now, rateLimitCache, idleEntries, lastCleanupTime, kv, bgWrites, brVars>>
     /\ Record(admitted, winBase, lastRej)

\* lines 315-316, 364-391: the body is not JSON or fails the schema
BadBody(r) ==
  /\ Settled
  /\ req[r].pc = "rlDone"
  /\ req[r].allowed
  /\ req' = [req EXCEPT ![r] = Respond(@, 400, "body", 0)]
  /\ UNCHANGED <<now, rlVars, brVars>>
  /\ Record(admitted, winBase, lastRej)

(* ---- browser coordinator ---- *)
\* the newest waiter taken instead of the oldest
Pop(q) == [next |-> q[Len(q)], rest |-> SubSeq(q, 1, Len(q) - 1)]

\* line 129: browserQueue.shift()
Shift(q) == [next |-> Head(q), rest |-> Tail(q)]

\* the session closed and forgotten on release
BrowserClosedOnRelease(b) == 0

\* lines 118-121: releaseBrowser leaves the session open and cached
BrowserAfterRelease(b) == b

\* the release placed after the render instead of in a finally block
ReleasedOnSuccessOnly(ok) == ok

\* lines 359-362: the finally block runs whether generatePDF returned or threw
ReleasedAfterRender(ok) == TRUE

\* the waiter that is handed the session left in the queue
QueueKeptAfterRelease(b) == browserQueue

\* lines 129-136 and 151-155, processQueue(cachedBrowser) from releaseBrowser:
\* the queue, the slot and the waiters after the call, given the session b.
\* With a session the oldest waiter is resolved; with null every waiter is
\* rejected in turn ("Browser not available").
QueueAfterRelease(b) ==
  IF browserQueue = <<>> \/ b = 0 THEN <<>> ELSE Shift(browserQueue).rest

\* line 132 left out: the slot stays free when it is handed to a waiter
InUseAfterReleaseCleared(b) == FALSE

InUseAfterRelease(b) == browserQueue # <<>> /\ b # 0

WaitersAfterRelease(q, b) ==
  IF browserQueue = <<>> THEN q
  ELSE IF b # 0
    THEN [q EXCEPT ![Shift(browserQueue).next] =
            [@ EXCEPT !.pc = "render", !.browser = b, !.acquired = TRUE,
                      !.via = "queue"]]
  ELSE [w \in Reqs |->
          IF \E n \in 1..Len(browserQueue) : browserQueue[n] = w
          THEN Respond(q[w], 500, "error", 0) ELSE q[w]]

\* every waiter taken off the queue after a failed launch
QueueDroppedAfterFailure == <<>>

\* lines 125-150, processQueue(env) after a failed launch: the oldest waiter
\* gets the slot and a launch of its own.
QueueAfterFailure ==
  IF browserQueue = <<>> THEN <<>> ELSE Shift(browserQueue).rest

\* line 139 left out: the slot stays free while a launch is made for a waiter
InUseAfterFailureCleared == FALSE

InUseAfterFailure == browserQueue # <<>>

\* the waiter taken off the queue is forgotten: no launch is started for it
WaitersForgottenAfterFailure(q) == q

WaitersAfterFailure(q) ==
  IF browserQueue = <<>> THEN q
  ELSE [q EXCEPT ![Shift(browserQueue).next] = [@ EXCEPT !.pc = "qlaunch"]]

\* lines 315-320 and 84-104: the body parses; acquireBrowser up to its first
\* await, or the request joins the queue.
AcquireBrowser(r) ==
  /\ Settled
  /\ req[r].pc = "rlDone"
  /\ req[r].allowed
  /\ IF browserInUse
     THEN /\ browserQueue' = Append(browserQueue, r)
          /\ req' = [req EXCEPT ![r] = [Consumed(@) EXCEPT !.pc = "queued"]]
          /\ UNCHANGED browserInUse
     ELSE /\ browserInUse' = TRUE
          /\ req' = [req EXCEPT ![r] =
                       IF cachedBrowser # 0
                       THEN [Consumed(@) EXCEPT !.pc = "probe", !.browser = cachedBrowser]
                       ELSE [Consumed(@) EXCEPT !.pc = "launch"]]
          /\ UNCHANGED browserQueue
  /\ UNCHANGED <<now, rlVars, cachedBrowser, valid, nextSession>>
  /\ Record(admitted, winBase, lastRej)

\* lines 98-99: version() answers, the cached session is returned
ProbeOk(r) ==
  /\ Settled
  /\ req[r].pc = "probe"
  /\ req[r].browser \in valid
  /\ req' = [req EXCEPT ![r] =
               [@ EXCEPT !.pc = "render", !.browser = cachedBrowser, !.acquired = TRUE,
                         !.via = "probe"]]
  /\ UNCHANGED <<now, rlVars, brVars, histVars>>

\* lines 100-108: version() throws, the session is dropped and a launch starts
ProbeFail(r) ==
  /\ Settled
  /\ req[r].pc = "probe"
  /\ req[r].browser \notin valid
  /\ cachedBrowser' = 0
  /\ req' = [req EXCEPT ![r] = [@ EXCEPT !.pc = "launch", !.browser = 0]]
  /\ UNCHANGED <<now, rlVars, browserInUse, browserQueue, valid, nextSession, histVars>>

\* lines 108-109 (acquireBrowser) and 142-145 (processQueue): launch resolves
LaunchOk(r) ==
  /\ Settled
  /\ req[r].pc \in {"launch", "qlaunch"}
  /\ nextSession <= MaxSessions
  /\ cachedBrowser' = nextSession
  /\ nextSession' = nextSession + 1
  /\ valid' = valid \cup {nextSession}
  /\ req' = [req EXCEPT ![r] =
               [@ EXCEPT !.pc = "render", !.browser = nextSession, !.acquired = TRUE,
                         !.via = "launch"]]
  /\ UNCHANGED <<now, rlVars, browserInUse, browserQueue, histVars>>

\* lines 110-114 (acquireBrowser) and 146-150 (processQueue): launch rejects
LaunchFail(r, msg) ==
  /\ Settled
  /\ req[r].pc \in {"launch", "qlaunch"}
  /\ browserInUse' = InUseAfterFailure
  /\ browserQueue' = QueueAfterFailure
  /\ req' = WaitersAfterFailure([req EXCEPT ![r] = AcquireFailed(@, msg)])
  /\ capacityRejectedAt' = IF IsBrowserRateLimit(msg) THEN now ELSE capacityRejectedAt
  /\ UNCHANGED <<now, rlVars, cachedBrowser, valid, nextSession,
                 admitted, winBase, lastRej, lastIntervalPut, restarts>>

\* lines 420-448, generatePDF: a PDF is returned only after newPage() gave a
\* page and the finally block closed it; a render that throws either never
\* got a page or closed the one it had.
PageOutcomes(ok) == IF ok THEN {"closed"} ELSE {"none", "closed"}

\* lines 118-121 and 359-362: nothing on the way out calls browser.close()
SessionClosedOnRelease == FALSE

\* lines 347-362 and 118-121: generatePDF returns or throws, and the finally
\* block releases the slot.
RenderReturn(r, ok) ==
  \E pg \in PageOutcomes(ok) :
  LET b == BrowserAfterRelease(cachedBrowser)
      rq0 == [req[r] EXCEPT !.page = pg, !.closed = SessionClosedOnRelease]
      rq1 == IF ok THEN Respond(rq0, 200, "pdf", 0)
             ELSE Respond(rq0, 500, "error", 0)
  IN /\ Settled
     /\ req[r].pc = "render"
     /\ ok => req[r].browser \in valid
     /\ IF ReleasedAfterRender(ok)
        THEN /\ cachedBrowser' = b
             /\ browserInUse' = InUseAfterRelease(b)
             /\ browserQueue' = QueueAfterRelease(b)
             /\ req' = WaitersAfterRelease(
                         [req EXCEPT ![r] = [rq1 EXCEPT !.releases = @ + 1]], b)
        ELSE /\ req' = [req EXCEPT ![r] = rq1]
             /\ UNCHANGED <<cachedBrowser, browserInUse, browserQueue>>
     /\ UNCHANGED <<now, rlVars, valid, nextSession, histVars>>

(* ---- environment ---- *)
\* the remote browser dies or is closed for idleness by the provider
SessionLost(s) ==
  /\ Settled
  /\ s \in valid
  /\ valid' = valid \ {s}
  /\ UNCHANGED <<now, rlVars, cachedBrowser, browserInUse, browserQueue,
                 nextSession, req, histVars>>

\* the clock advances; the runtime ends work handed to ctx.waitUntil within
\* WaitUntilLimit of its start, so no deferred put is still pending later
Tick(t) ==
  /\ Settled
  /\ t > now
  /\ \A w \in bgWrites : t <= w.at + WaitUntilLimit
  /\ now' = t
  /\ UNCHANGED <<rlVars, brVars, req>>
  /\ Record(admitted, winBase, lastRej)

\* lines 56-62: the runtime drops the isolate between two requests and loads
\* the module anew; the module-scope state starts over, KV stays as it is
Restart ==
  /\ \A r \in Reqs : req[r].pc = "idle"
  /\ bgWrites = {}
  /\ restarts < MaxRestarts
  /\ restarts' = restarts + 1
  /\ rateLimitCache' = [i \in Ids |-> 0]
  /\ objs' = [k \in ObjIds |-> FreeObj]
  /\ idleEntries' = EmptyBag
  /\ lastCleanupTime' = 0
  /\ cachedBrowser' = 0
  /\ browserInUse' = FALSE
  /\ browserQueue' = <<>>
  /\ UNCHANGED <<now, kv, bgWrites, valid, nextSession, req,
                 capacityRejectedAt, lastIntervalPut>>
  /\ admitted' = [i \in Ids |->
                    [R \in {x \in DOMAIN admitted[i] : LiveWindow(i, x)'} |-> admitted[i][R]]]
  /\ winBase' = [i \in Ids |->
                    [R \in {x \in DOMAIN winBase[i] : LiveWindow(i, x)'} |-> winBase[i][R]]]
  /\ lastRej' = [i \in Ids |-> {x \in lastRej[i] : LiveWindow(i, x.resetTime)'}]

\* lines 286-290 for a request of another client address, between two runs
\* of the requests followed here: the janitor runs over the whole Map, then
\* checkRateLimit works on the Map entry and the KV key of that address
\* alone. The address is a new one while fewer than MaxOthers idle entries
\* are kept, and one of those otherwise.
OtherClientCall ==
  LET swept == SweptIdleEntries(now)
      c1 == cleanupExpiredCacheIfNeeded(now)
  IN /\ Settled
     /\ lastCleanupTime' = CleanupTimeAfter(now)
     /\ rateLimitCache' = c1
     /\ objs' = Collect(objs, c1, req)
     /\ idleEntries' = IF BagCardinality(swept) < MaxOthers
                       THEN swept (+) SetToBag({now + windowMs})
                       ELSE swept
     /\ UNCHANGED <<now, kv, bgWrites, brVars, req>>
     /\ Record(admitted, winBase, lastRej)

\* the response has been sent; the coroutine's locals are gone
Finish(r) ==
  /\ req[r].pc = "done"
  /\ req' = [req EXCEPT ![r] = IdleReq]
  /\ UNCHANGED <<now, rlVars, brVars, histVars>>

(* ---- the system ---- *)
\* What a previous isolate may have left in KV under a key: nothing, a full
\* window that is over or ends this very millisecond, or a running window
\* near or at the limit.
KvLeftovers ==
  {{}} \cup
  {{[count |-> maxRequests, resetTime |-> StartTime + e]} : e \in {-1, 0}} \cup
  {{[count |-> c, resetTime |-> StartTime + windowMs \div 2]} :
      c \in {maxRequests - 1, maxRequests}}

InitLoaded(stores, loads) ==
  /\ now = StartTime
  /\ idleEntries \in loads
  /\ rateLimitCache = [i \in Ids |-> 0]
  /\ objs = [k \in ObjIds |-> FreeObj]
  /\ lastCleanupTime = 0
  /\ kv \in stores
  /\ bgWrites = {}
  /\ cachedBrowser = 0
  /\ browserInUse = FALSE
  /\ browserQueue = <<>>
  /\ valid = {}
  /\ nextSession = 1
  /\ req = [r \in Reqs |-> IdleReq]
  /\ admitted = [i \in Ids |-> <<>>]
  /\ winBase = [i \in Ids |-> <<>>]
  /\ lastRej = [i \in Ids |-> {}]
  /\ capacityRejectedAt = -1
  /\ lastIntervalPut = [i \in Ids |-> -1]
  /\ restarts = 0

\* the Map holds no entry when the isolate is loaded
InitWith(stores) == InitLoaded(stores, {EmptyBag})

Init == InitWith([Ids -> KvLeftovers])

\* request coroutines are interchangeable: a new request takes the first free one
FirstIdle(r) == \A r2 \in Reqs : r2 < r => req[r2].pc # "idle"

\* no request is being handled
Quiet == \A r \in Reqs : req[r].pc = "idle"

Arrive(r, o) ==
  \/ Preflight(r, o)
  \/ MethodNotAllowed(r, o)
  \/ Unauthorized(r, o)
  \/ \E i \in Ids : BeginCheck(r, i, o)

RateLimitStep(r) ==
  \/ \E ok \in BOOLEAN : KvGetReturn(r, ok)
  \/ \E ok \in BOOLEAN : KvPutReturn(r, ok)
  \/ RateLimited(r)
  \/ BadBody(r)

\* the coordinator when the provider and the render never fail
SmoothBrowserStep(r) ==
  \/ AcquireBrowser(r)
  \/ ProbeOk(r)
  \/ LaunchOk(r)
  \/ RenderReturn(r, TRUE)

BrowserStep(r) ==
  \/ AcquireBrowser(r)
  \/ ProbeOk(r)
  \/ ProbeFail(r)
  \/ LaunchOk(r)
  \/ \E msg \in ErrorMessages : LaunchFail(r, msg)
  \/ \E ok \in BOOLEAN : RenderReturn(r, ok)

\* the coordinator when launches fail for reasons other than capacity
CoordinatorStep(r) ==
  \/ AcquireBrowser(r)
  \/ ProbeOk(r)
  \/ ProbeFail(r)
  \/ LaunchOk(r)
  \/ \E msg \in ErrorMessages : ~IsCapacityRejection(msg) /\ LaunchFail(r, msg)
  \/ \E ok \in BOOLEAN : RenderReturn(r, ok)

Deliver == \E r \in Reqs : Finish(r)

\* requests overlap freely
Next ==
  \/ Deliver
  \/ \E r \in Reqs, o \in Origins : FirstIdle(r) /\ Arrive(r, o)
  \/ \E r \in Reqs : RateLimitStep(r)
  \/ \E r \in Reqs : BrowserStep(r)
  \/ \E w \in bgWrites, ok \in BOOLEAN : BackgroundPutDone(w, ok)
  \/ \E s \in Sessions : SessionLost(s)
  \/ \E t \in Times : Tick(t)

Spec == Init /\ [][Next]_vars

\* one request at a time, with bodies that do not parse: a request arrives
\* only when no other is in flight; the store fails at will, the clock
\* advances at will
NextSeq ==
  \/ Deliver
  \/ \E r \in Reqs, i \in Ids : Quiet /\ FirstIdle(r) /\ BeginCheck(r, i, NoOrigin)
  \/ \E r \in Reqs : RateLimitStep(r)
  \/ \E w \in bgWrites, ok \in BOOLEAN : BackgroundPutDone(w, ok)
  \/ \E t \in Times : Tick(t)

SpecSeq == Init /\ [][NextSeq]_vars

\* one request at a time, through to its PDF, up to the end of the first
\* window; the store fails at will, the browser works
NextSeqRender ==
  \/ Deliver
  \/ \E r \in Reqs, i \in Ids : Quiet /\ FirstIdle(r) /\ BeginCheck(r, i, NoOrigin)
  \/ \E r \in Reqs : RateLimitStep(r)
  \/ \E r \in Reqs : SmoothBrowserStep(r)
  \/ \E w \in bgWrites, ok \in BOOLEAN : BackgroundPutDone(w, ok)
  \/ \E t \in Times : t <= StartTime + windowMs /\ Tick(t)

SpecSeqRender == Init /\ [][NextSeqRender]_vars

\* the rate limiter when the store answers every get and put
SmoothRateLimitStep(r) ==
  \/ KvGetReturn(r, TRUE)
  \/ KvPutReturn(r, TRUE)
  \/ RateLimited(r)
  \/ BadBody(r)

\* KV is empty, or holds a running window one short of the limit
InitRace ==
  InitWith([Ids -> {{}, {[count |-> maxRequests - 1,
                          resetTime |-> StartTime + windowMs \div 2]}}])

\* RaceReqs requests overlap in checkRateLimit within one instant of the
\* clock; the store and the browser work
NextRace ==
  \/ Deliver
  \/ \E r \in 1..RaceReqs, i \in Ids : FirstIdle(r) /\ BeginCheck(r, i, NoOrigin)
  \/ \E r \in Reqs : SmoothRateLimitStep(r)
  \/ \E r \in Reqs : SmoothBrowserStep(r)

SpecRace == InitRace /\ [][NextRace]_vars

\* KV is empty
InitBrowser == InitWith([Ids -> {{}}])

\* RaceReqs requests overlap in checkRateLimit while the clock moves on by
\* half a window; the store works, and the requests carry bodies that do not
\* parse, so that none goes on to the coordinator
NextRaceClock ==
  \/ Deliver
  \/ \E r \in 1..RaceReqs, i \in Ids : FirstIdle(r) /\ BeginCheck(r, i, NoOrigin)
  \/ \E r \in Reqs : SmoothRateLimitStep(r)
  \/ \E t \in Times : t <= StartTime + windowMs \div 2 /\ Tick(t)

SpecRaceClock == InitBrowser /\ [][NextRaceClock]_vars

\* one request at a time, with bodies that do not parse, within one window;
\* the store works; the isolate is loaded anew between two requests, up to
\* MaxRestarts times
NextRestart ==
  \/ Deliver
  \/ \E r \in Reqs, i \in Ids : Quiet /\ FirstIdle(r) /\ BeginCheck(r, i, NoOrigin)
  \/ \E r \in Reqs : SmoothRateLimitStep(r)
  \/ \E w \in bgWrites : BackgroundPutDone(w, TRUE)
  \/ \E t \in Times : t < StartTime + windowMs /\ Tick(t)
  \/ Restart

SpecRestart == InitBrowser /\ [][NextRestart]_vars

\* one request at a time of the client followed, with bodies that do not
\* parse, among requests of other clients; reads of the store fail at will,
\* its writes succeed, and the clock advances at will
NextOthers ==
  \/ Deliver
  \/ \E r \in Reqs, i \in Ids : Quiet /\ FirstIdle(r) /\ BeginCheck(r, i, NoOrigin)
  \/ \E r \in Reqs : KvGetReturn(r, FALSE) \/ SmoothRateLimitStep(r)
  \/ \E w \in bgWrites : BackgroundPutDone(w, TRUE)
  \/ \E t \in SweepTimes : Tick(t)
  \/ OtherClientCall

SpecOthers == InitRace /\ [][NextOthers]_vars

\* no request is between its arrival and its call of acquireBrowser
PastRateLimit == \A r \in Reqs : req[r].pc \notin {"kvGet", "kvPut", "rlDone"}

\* KV holds a running window with CoordBudget requests left in it
InitCoord ==
  InitWith([Ids -> {{[count |-> maxRequests - CoordBudget,
                      resetTime |-> StartTime + windowMs \div 2]}}])

\* requests pass the rate limiter one at a time and overlap freely in the
\* coordinator, within one instant of the clock; the store works; sessions
\* die, launches (for reasons other than capacity) and renders fail at will
NextBrowser ==
  \/ Deliver
  \/ \E r \in Reqs, i \in Ids : PastRateLimit /\ FirstIdle(r) /\ BeginCheck(r, i, NoOrigin)
  \/ \E r \in Reqs : SmoothRateLimitStep(r)
  \/ \E r \in Reqs : CoordinatorStep(r)
  \/ \E s \in Sessions : SessionLost(s)

SpecBrowser == InitCoord /\ [][NextBrowser]_vars

\* KV holds a running window with QueueBudget requests left in it
InitQueue ==
  InitWith([Ids -> {{[count |-> maxRequests - QueueBudget,
                      resetTime |-> StartTime + windowMs \div 2]}}])

\* The calls a request in the coordinator awaits return: version() answers or
\* throws, puppeteer.launch resolves or rejects, generatePDF returns or
\* throws; and a response, once made, is sent.
CallsReturn ==
  /\ WF_vars(Deliver)
  /\ \A r \in Reqs :
       /\ SF_vars(ProbeOk(r) \/ ProbeFail(r))
       /\ SF_vars(LaunchOk(r) \/ \E msg \in ErrorMessages :
                                   ~IsCapacityRejection(msg) /\ LaunchFail(r, msg))
       /\ SF_vars(\E ok \in BOOLEAN : RenderReturn(r, ok))

\* the coordinator of SpecBrowser on a window nearly used up, every awaited
\* call returning
SpecQueueFair == InitQueue /\ [][NextBrowser]_vars /\ CallsReturn

\* requests of every kind and from every origin, one at a time; the store,
\* the provider and the render fail at will, sessions die, within one
\* instant of the clock
NextStages ==
  \/ Deliver
  \/ \E r \in Reqs, o \in Origins : Quiet /\ FirstIdle(r) /\ Arrive(r, o)
  \/ \E r \in Reqs : RateLimitStep(r)
  \/ \E r \in Reqs : BrowserStep(r)
  \/ \E s \in Sessions : SessionLost(s)

SpecStages == Init /\ [][NextStages]_vars

\* Entries a long-running isolate has gathered from clients that since went
\* quiet: some that expired more than the grace period ago, one on the very
\* edge of the grace period, and up to MAX_CACHE_SIZE + 1 running windows.
\* The isolate swept last at time 0, so a sweep is due at StartTime.
JanitorLoads ==
  {[R \in {StartTime - GRACE_MS - 1 : x \in 1..old}
        \cup {StartTime - GRACE_MS : x \in 1..edge}
        \cup {StartTime + windowMs \div 2} |->
      IF R = StartTime - GRACE_MS - 1 THEN old
      ELSE IF R = StartTime - GRACE_MS THEN edge
      ELSE live] :
     old \in {0, 5}, edge \in {0, 1},
     live \in {MAX_CACHE_SIZE - 1, MAX_CACHE_SIZE, MAX_CACHE_SIZE + 1}}

InitJanitor == InitLoaded([Ids -> {{}}], JanitorLoads)

\* one request at a time, with bodies that do not parse, on a loaded cache;
\* the store works; the clock advances at will, up to the time the next sweep
\* is due
NextJanitor ==
  \/ Deliver
  \/ \E r \in Reqs, i \in Ids : Quiet /\ FirstIdle(r) /\ BeginCheck(r, i, NoOrigin)
  \/ \E r \in Reqs : SmoothRateLimitStep(r)
  \/ \E w \in bgWrites : BackgroundPutDone(w, TRUE)
  \/ \E t \in Times : Tick(t)

SpecJanitor == InitJanitor /\ [][NextJanitor]_vars

(* ---- what the claims look at ---- *)
\* the local entry of identifier i, as a set: empty when the Map has no entry
EntryOf(i) == IF rateLimitCache[i] = 0 THEN {} ELSE {objs[rateLimitCache[i]]}

\* the durable count window R of identifier i started from (0: a fresh window)
BaseOf(i, R) == IF R \in DOMAIN winBase[i] THEN winBase[i][R] ELSE 0

AdmittedIn(i, R) == IF R \in DOMAIN admitted[i] THEN admitted[i][R] ELSE 0

JustReturned(r) == req[r].pc = "rlDone"

\* C1: with one call at a time, the calls that returned allowed=true for one
\* window of an identifier (one resetTime), added to the durable count the
\* window was adopted with, never exceed maxRequests.
C1_AdmittedWithinLimit ==
  \A i \in Ids : \A R \in DOMAIN admitted[i] :
    BaseOf(i, R) + admitted[i][R] <= maxRequests

\* a fresh window has admitted maxRequests calls and the next call is rejected
C1_Witness ==
  \E r \in Reqs :
    /\ JustReturned(r) /\ ~req[r].allowed
    /\ BaseOf(req[r].id, req[r].resetTime) = 0
    /\ AdmittedIn(req[r].id, req[r].resetTime) = maxRequests

\* C3: in a fresh window the i-th sequential call is admitted with
\* remaining = maxRequests - i >= 0, and a call is rejected (remaining 0) only
\* when maxRequests calls were admitted before it.
C3_RemainingCountsDown ==
  \A r \in Reqs :
    (JustReturned(r) /\ req[r].resetTime \in DOMAIN winBase[req[r].id]
       /\ BaseOf(req[r].id, req[r].resetTime) = 0) =>
      IF req[r].allowed
      THEN /\ req[r].remaining = maxRequests - AdmittedIn(req[r].id, req[r].resetTime)
           /\ req[r].remaining >= 0
           /\ AdmittedIn(req[r].id, req[r].resetTime) >= 1
      ELSE /\ req[r].remaining = 0
           /\ AdmittedIn(req[r].id, req[r].resetTime) = maxRequests

\* the last admitted call of a fresh window: remaining 0
C3_Witness ==
  \E r \in Reqs :
    /\ JustReturned(r) /\ req[r].allowed /\ req[r].remaining = 0
    /\ req[r].resetTime \in DOMAIN winBase[req[r].id]
    /\ BaseOf(req[r].id, req[r].resetTime) = 0
    /\ AdmittedIn(req[r].id, req[r].resetTime) = maxRequests

\* C4 as stated: a rejected call returns remaining 0 and the window's
\* resetTime, issues no put, and leaves the limiter as it was before the call.
C4_RejectChangesNothing ==
  \A r \in Reqs :
    (JustReturned(r) /\ ~req[r].allowed) =>
      /\ req[r].remaining = 0
      /\ ~req[r].didPut
      /\ EntryOf(req[r].id) = req[r].pre
      /\ \A e \in EntryOf(req[r].id) : req[r].resetTime = e.resetTime

\* C4 amended: a rejected call returns remaining 0 and the window's resetTime
\* and issues no put; on a cache hit the entry is as before the call; on a
\* cache miss the call leaves the entry it adopted from KV, count maxRequests
\* and lastSync the call's now.
C4_RejectRestoresEntry ==
  \A r \in Reqs :
    (JustReturned(r) /\ ~req[r].allowed) =>
      /\ req[r].remaining = 0
      /\ ~req[r].didPut
      /\ EntryOf(req[r].id) # {}
      /\ \A e \in EntryOf(req[r].id) :
           /\ req[r].resetTime = e.resetTime
           /\ IF req[r].pre # {} THEN req[r].pre = {e}
              ELSE e.count = maxRequests /\ e.lastSync = req[r].now

\* a call rejected on a cache hit
C4_Witness ==
  \E r \in Reqs : JustReturned(r) /\ ~req[r].allowed /\ req[r].pre # {}

\* C5: Retry-After of a client 429 is at least 1, and from one rejection to
\* the next of the same identifier and window it does not grow.
C5_RetryAfter ==
  /\ [](\A r \in Reqs :
          (req[r].pc = "done" /\ req[r].kind = "client") => req[r].retryAfter >= 1)
  /\ [][\A i \in Ids : \A a \in lastRej[i] : \A b \in lastRej'[i] :
          a.resetTime = b.resetTime => b.retryAfter <= a.retryAfter]_vars

\* a second rejection in a window, later than the first and with a shorter wait
C5_Witness ==
  \E r \in Reqs :
    /\ Settled
    /\ req[r].pc = "rlDone" /\ ~req[r].allowed
    /\ \E a \in lastRej[req[r].id] :
         /\ a.resetTime = req[r].resetTime
         /\ RetryAfter(req[r].resetTime, now) < a.retryAfter

\* C6: a failed KV get or put never ends the request with the store's error:
\* the call still returns a decision, taken from the local entry, and the
\* window's admissions stay within maxRequests.
C6_StoreFailureNotSurfaced ==
  \A r \in Reqs :
    req[r].kvFailed =>
      /\ req[r].kind # "uncaught"
      /\ JustReturned(r) =>
           /\ EntryOf(req[r].id) # {}
           /\ \A e \in EntryOf(req[r].id) :
                IF req[r].allowed
                THEN /\ req[r].remaining = maxRequests - e.count
                     /\ e.count <= maxRequests
                ELSE e.count >= maxRequests
           /\ AdmittedIn(req[r].id, req[r].resetTime) <= maxRequests

\* a request whose KV read failed, whose KV write failed while the window was
\* near its limit, or both, and that got its PDF all the same
C6_Witness ==
  \E r \in Reqs :
    req[r].kvFailed /\ req[r].pc = "done" /\ req[r].status = 200

\* a call of identifier i is inside checkRateLimit
Checking(i) == \E r \in Reqs : req[r].id = i /\ req[r].pc \in {"kvGet", "kvPut"}

\* C2: overlapping calls of one identifier are linearizable: once no call is
\* inside checkRateLimit, the local count is the count the window started from
\* plus the calls admitted in it (no increment is lost), and a window never
\* admits more than maxRequests.
C2_Linearizable ==
  \A i \in Ids :
    /\ \A R \in DOMAIN admitted[i] : BaseOf(i, R) + admitted[i][R] <= maxRequests
    /\ ~Checking(i) =>
         \A e \in EntryOf(i) :
           e.count = BaseOf(i, e.resetTime) + AdmittedIn(i, e.resetTime)

(* ---- browser coordinator claims ---- *)
Holders == {r \in Reqs : req[r].pc = "render"}

SlotOwners == {r \in Reqs : req[r].pc \in {"probe", "launch", "qlaunch", "render"}}

Released(r) == req[r].pc = "render" /\ req'[r].pc = "done"

Handed(r) == req[r].pc # "render" /\ req'[r].pc = "render"

\* C7: at most one in-flight request holds the session, and while one holds
\* it, or probes or launches for itself, the slot is marked in use and belongs
\* to nobody else.
C7_OneHolder ==
  /\ Cardinality(Holders) <= 1
  /\ Cardinality(SlotOwners) <= 1
  /\ SlotOwners # {} => browserInUse

\* a request renders while two others wait in the queue
C7_Witness == Holders # {} /\ Len(browserQueue) >= 2

\* C8: waiters are served first in, first out: a request joins the queue at
\* its tail, only the head of the queue leaves it, and a request takes the
\* free slot directly only when nobody is queued.
C8_Fifo ==
  [][\A r \in Reqs :
       /\ (req[r].pc # "queued" /\ req'[r].pc = "queued") =>
            browserQueue' = Append(browserQueue, r)
       /\ (req[r].pc = "queued" /\ req'[r].pc # "queued") =>
            (r = Head(browserQueue) /\ browserQueue' = Tail(browserQueue))
       /\ (req[r].pc = "rlDone" /\ req'[r].pc \in {"probe", "launch"}) =>
            browserQueue = <<>>]_vars

\* the oldest waiter has been handed the session and a later one still waits
C8_Witness ==
  \E r \in Reqs :
    req[r].pc = "render" /\ req[r].via = "queue" /\ browserQueue # <<>>

\* C9: a request that obtained the session released it exactly once when it
\* is answered, after a render that returned (200) or threw (500); a request
\* that did not obtain it never released; nobody releases before its render ends.
C9_ReleasedOnce ==
  \A r \in Reqs :
    /\ req[r].pc = "done" =>
         /\ req[r].releases = IF req[r].acquired THEN 1 ELSE 0
         /\ req[r].acquired => req[r].status \in {200, 500}
    /\ req[r].pc # "done" => req[r].releases = 0

\* a render failed: 500, and the session was released
C9_Witness ==
  \E r \in Reqs :
    /\ req[r].pc = "done" /\ req[r].acquired
    /\ req[r].status = 500 /\ req[r].releases = 1

C11_SessionClosedAfterPdf ==
  \A r \in Reqs :
    (req[r].pc = "done" /\ req[r].status = 200 /\ req[r].kind = "pdf") =>
      /\ req[r].via = "launch"
      /\ req[r].page = "closed"
      /\ req[r].closed

(* ---- upstream capacity rejections ---- *)
COOLDOWN_MS == UPSTREAM_RETRY_AFTER * 1000

\* a capacity rejection was answered less than COOLDOWN_MS ago
CoolingDown == capacityRejectedAt >= 0 /\ now < capacityRejectedAt + COOLDOWN_MS

\* C12: while less than 60 s have passed since a launch was refused for
\* capacity, a request that reaches the acquisition stage is answered at once,
\* 429 with the remaining wait of the cooldown (or 400 for its body), and no
\* launch, probe or queueing is started for it.
C12_CooldownFailsFast ==
  [][\A r \in Reqs :
       (CoolingDown /\ req[r].pc = "rlDone" /\ req[r].allowed
          /\ req'[r].pc # "rlDone") =>
         /\ req'[r].pc = "done"
         /\ \/ req'[r].kind = "body"
            \/ /\ req'[r].status = 429
               /\ req'[r].retryAfter =
                    RetryAfter(capacityRejectedAt + COOLDOWN_MS, now)]_vars

\* C13: a failed acquisition whose message holds "429" or a rate-limit phrase
\* in any letter case is answered 429 with retryAfter 60 and starts the
\* cooldown at that moment; any other failed acquisition is answered 500.
C13_CapacityRejectionRecognised ==
  \A r \in Reqs :
    (req[r].pc = "done" /\ req[r].err # <<>>) =>
      IF IsCapacityRejection(req[r].err)
      THEN /\ req[r].status = 429
           /\ req[r].retryAfter = UPSTREAM_RETRY_AFTER
           /\ capacityRejectedAt = now
      ELSE req[r].status = 500

(* ---- the stages of a request ---- *)
Answered(r) == req[r].pc # "done" /\ req'[r].pc = "done"

\* C14: a request passes method check, authentication, rate-limit check, body
\* validation and acquisition, render, release in this order and, when it
\* ends at a stage, has none of the later stages' effects: a preflight, 405
\* or 401 answer leaves the rate-limit cache, the janitor's clock, the store
\* and the browser coordinator as they were; a client 429 or a 400 leaves the
\* slot, the queue, the cached session and the provider as they were.
C14_StagesInOrder ==
  [][\A r \in Reqs :
       /\ (Answered(r) /\ req'[r].kind \in {"preflight", "method", "auth"}) =>
            /\ req[r].pc = "idle"
            /\ UNCHANGED <<rlVars, brVars>>
       /\ (Answered(r) /\ req'[r].kind \in {"client", "body"}) =>
            /\ req[r].pc = "rlDone"
            /\ (req'[r].kind = "client") = ~req[r].allowed
            /\ UNCHANGED brVars
            /\ ~req'[r].acquired /\ req'[r].browser = 0 /\ req'[r].releases = 0
       /\ (req[r].pc # "rlDone" /\ req'[r].pc = "rlDone") =>
            req[r].pc \in {"idle", "kvGet", "kvPut"}
       /\ (req[r].pc \notin {"queued", "probe", "launch"}
             /\ req'[r].pc \in {"queued", "probe", "launch"}) =>
            (req[r].pc = "rlDone" /\ req[r].allowed)
       /\ Handed(r) => req[r].pc \in {"queued", "probe", "launch", "qlaunch"}
       /\ (Answered(r) /\ req'[r].kind = "pdf") =>
            (req[r].pc = "render" /\ req'[r].releases = 1)]_vars

\* a 401 is answered while the cache holds an entry and a session is cached
C14_Witness ==
  \E r \in Reqs :
    /\ req[r].pc = "done" /\ req[r].kind = "auth"
    /\ cachedBrowser # 0
    /\ \E i \in Ids : EntryOf(i) # {}

(* ---- CORS ---- *)
\* C15: every response carries Access-Control-Allow-Origin: the request's
\* Origin when it is one of the two allowed origins, the first allowed origin
\* otherwise; and no request ends with an exception that left the handler.
C15_AllowOriginOnEveryPath ==
  \A r \in Reqs :
    req[r].pc = "done" =>
      /\ req[r].kind # "uncaught"
      /\ req[r].kind \in {"preflight", "method", "auth", "client", "upstream",
                          "body", "error", "pdf"}
      /\ IF req[r].origin \in {"http://localhost:3000", "https://www.getinvoify.com"}
         THEN req[r].hdr.acao = req[r].origin
         ELSE req[r].hdr.acao = "http://localhost:3000"

\* a request from an origin outside the list failed to get a session after
\* its store read failed, and its 500 is addressed to the first allowed origin
C15_Witness ==
  \E r \in Reqs :
    /\ req[r].pc = "done" /\ req[r].status = 500 /\ req[r].kvFailed
    /\ req[r].origin = "https://elsewhere.example"
    /\ req[r].hdr.acao = "http://localhost:3000"

\* C16 as stated: every response, the preflight response too, carries
\* Access-Control-Allow-Credentials: true and Access-Control-Expose-Headers: *.
C16_CredentialsAndExposeEverywhere ==
  \A r \in Reqs :
    req[r].pc = "done" =>
      (req[r].hdr.acac = "true" /\ req[r].hdr.expose = "*")

\* C16 amended: every response carries Access-Control-Allow-Credentials:
\* true; every response but the preflight response carries
\* Access-Control-Expose-Headers: *, and the preflight response has no such header.
C16_CredentialsEverywhereExposeButPreflight ==
  \A r \in Reqs :
    req[r].pc = "done" =>
      /\ req[r].hdr.acac = "true"
      /\ req[r].hdr.expose = IF req[r].kind = "preflight" THEN "" ELSE "*"

\* a preflight response and, under it, a 429 of the upstream
C16_Witness ==
  \E r \in Reqs :
    /\ req[r].pc = "done" /\ req[r].kind = "preflight"
    /\ req[r].hdr.acac = "true" /\ req[r].hdr.expose = ""
    /\ capacityRejectedAt >= 0

(* ---- cache janitor claims ---- *)
Swept == lastCleanupTime' # lastCleanupTime

\* C17: right after a janitor sweep the cache holds at most MAX_CACHE_SIZE
\* entries.
C17_SizeCappedAfterSweep ==
  [][Swept => CacheSize' <= MAX_CACHE_SIZE]_vars

(* ---- window ends ---- *)
\* the resetTimes earlier calls of identifier i returned
ReturnedBefore(i) == DOMAIN admitted[i] \cup {x.resetTime : x \in lastRej[i]}

\* C18: the resetTime a checkRateLimit call returns is never below a
\* resetTime an earlier call of the same identifier returned.
C18_ResetTimeNeverRegresses ==
  [][\A r \in Reqs :
       (req[r].pc # "rlDone" /\ req'[r].pc = "rlDone") =>
         \A R \in ReturnedBefore(req'[r].id) : R <= req'[r].resetTime]_vars

(* ---- cache miss and rollover ---- *)
\* the KV get of request r returns or throws in this step
GetReturns(r) == req[r].pc = "kvGet" /\ req'[r].pc # "kvGet"

ArrivedAfterWindow(rq) ==
  rq.pre # {} /\ \A e0 \in rq.pre : e0.resetTime < rq.now

\* C20: a call that finds a local entry whose window is over rolls it over in
\* place without reading the store: the same entry object gets count 1 (0,
\* then this call), resetTime = now + windowMs and lastSync = now, the call
\* awaits the put of {count 1, resetTime} as the first request of the window,
\* and it returns allowed with remaining = maxRequests - 1.
C20_RolloverInPlace ==
  /\ [][\A r \in Reqs :
          (req[r].pc = "idle" /\ req'[r].pc # "idle" /\ ArrivedAfterWindow(req'[r])) =>
            LET i == req'[r].id
                t == req'[r].now
            IN /\ rateLimitCache[i] # 0
               /\ rateLimitCache'[i] = rateLimitCache[i]
               /\ objs'[rateLimitCache[i]] =
                    [count |-> 1, resetTime |-> t + windowMs, lastSync |-> t]
               /\ req'[r].pc = "kvPut"
               /\ req'[r].put = {[count |-> 1, resetTime |-> t + windowMs]}
               /\ kv' = kv]_vars
  /\ [](\A r \in Reqs :
          (JustReturned(r) /\ ArrivedAfterWindow(req[r])) =>
            /\ req[r].allowed
            /\ req[r].remaining = maxRequests - 1
            /\ req[r].resetTime = req[r].now + windowMs)

\* a call that found a full window that was over, admitted in the new one
C20_Witness ==
  \E r \in Reqs :
    /\ JustReturned(r) /\ ArrivedAfterWindow(req[r])
    /\ \A e0 \in req[r].pre : e0.count = maxRequests
    /\ req[r].allowed /\ req[r].remaining = maxRequests - 1

(* ---- the last millisecond of a window ---- *)
\* request r arrives in this step and finds a local entry whose window ends
\* at this very millisecond
HitsAtWindowEnd(r) ==
  /\ req[r].pc = "idle" /\ req'[r].pc # "idle"
  /\ req'[r].pre # {} /\ \A e0 \in req'[r].pre : e0.resetTime = req'[r].now

\* the KV get of request r returns in this step a record whose window ends at
\* the millisecond the call read the clock
ReadsAtWindowEnd(r) ==
  /\ GetReturns(r) /\ ~req'[r].kvFailed
  /\ \E d \in kv[req[r].id] : d.resetTime = req[r].now

\* C21 as claimed: a call at now = resetTime is outside the window. The local
\* entry is reset, the durable record is not adopted, and the call is the
\* first of a new window that ends at now + windowMs.
C21_WindowEndIsOutside ==
  [][\A r \in Reqs :
       (HitsAtWindowEnd(r) \/ ReadsAtWindowEnd(r)) =>
         LET e == objs'[rateLimitCache'[req'[r].id]]
         IN e.resetTime = req'[r].now + windowMs /\ e.count = 1]_vars

\* C21: a call at now = resetTime is still inside the window. A local entry
\* is not reset, a durable record is adopted, and the call is counted on top
\* of the window's count, or rejected when the window is full.
C21_WindowEndIsInside ==
  [][\A r \in Reqs :
       /\ HitsAtWindowEnd(r) =>
            LET i == req'[r].id
                e == objs'[rateLimitCache'[i]]
            IN /\ rateLimitCache'[i] = rateLimitCache[i]
               /\ \A e0 \in req'[r].pre :
                    /\ e.resetTime = e0.resetTime
                    /\ IF e0.count < maxRequests
                       THEN e.count = e0.count + 1 /\ req'[r].pc \in {"kvPut", "rlDone"}
                       ELSE /\ e.count = e0.count
                            /\ req'[r].pc = "rlDone" /\ ~req'[r].allowed
       /\ ReadsAtWindowEnd(r) =>
            LET i == req[r].id
                e == objs'[rateLimitCache'[i]]
            IN \A d \in kv[i] :
                 /\ e.resetTime = d.resetTime
                 /\ IF d.count < maxRequests
                    THEN e.count = d.count + 1
                    ELSE /\ e.count = d.count
                         /\ req'[r].pc = "rlDone" /\ ~req'[r].allowed]_vars

\* a call that found its local window ending at this very millisecond was
\* admitted into that window
C21_Witness ==
  \E r \in Reqs :
    /\ JustReturned(r) /\ req[r].allowed
    /\ req[r].pre # {} /\ \A e0 \in req[r].pre : e0.resetTime = req[r].now
    /\ req[r].resetTime = req[r].now
    /\ req[r].remaining < maxRequests - 1

(* ---- syncing the local count to the store ---- *)
\* the checkRateLimit call of request r is admitted in this step: it goes on
\* to await its put, or returns allowed without one
AdmittedNow(r) ==
  /\ req[r].pc \in {"idle", "kvGet"}
  /\ \/ req'[r].pc = "kvPut"
     \/ req'[r].pc = "rlDone" /\ req'[r].allowed

\* a put of request r's identifier was handed to ctx.waitUntil in this step
DeferredPuts(r) == {w \in bgWrites' \ bgWrites : w.id = req'[r].id}

ReturnsAllowed(r) ==
  req[r].pc # "rlDone" /\ req'[r].pc = "rlDone" /\ req'[r].allowed

\* C23: a call whose count is 1 or at least 80% of maxRequests returns only
\* at the step in which its put completes or fails, and hands nothing to
\* ctx.waitUntil; a call that syncs for the interval alone returns at once,
\* its put handed to ctx.waitUntil and the store not yet written.
C23_AwaitedOrDeferred ==
  [][\A r \in Reqs :
       ReturnsAllowed(r) =>
         LET i == req'[r].id
             cnt == maxRequests - req'[r].remaining
             val == [count |-> cnt, resetTime |-> req'[r].resetTime]
         IN IF cnt = 1 \/ cnt * 100 >= maxRequests * 80
            THEN /\ req[r].pc = "kvPut"
                 /\ req[r].put = {val}
                 /\ kv'[i] = {val} \/ (kv' = kv /\ req'[r].kvFailed)
                 /\ bgWrites' = bgWrites
            ELSE /\ req[r].pc = "idle"
                 /\ kv' = kv
                 /\ req'[r].didPut <=> DeferredPuts(r) # {}
                 /\ \A w \in DeferredPuts(r) : w.val = val /\ w.at = req'[r].now]_vars

\* the response with the PDF has been made while the put of its
\* checkRateLimit call, handed to ctx.waitUntil, has not yet completed
C23_Witness ==
  \E r \in Reqs, w \in bgWrites :
    /\ req[r].pc = "done" /\ req[r].status = 200 /\ req[r].kind = "pdf"
    /\ w.id = req[r].id
    /\ w.val = [count |-> maxRequests - req[r].remaining, resetTime |-> req[r].resetTime]
    /\ w.val \notin kv[w.id]

(* ---- the durable window ---- *)
\* C24: when the KV read of a call failed, the put of that call never
\* replaces a durable window that is not yet over by a window with a later
\* resetTime or a lower count.
C24_FailedReadKeepsDurableWindow ==
  [][\A r \in Reqs :
       (req[r].pc = "kvPut" /\ req[r].kvFailed /\ req'[r].pc # "kvPut") =>
         \A d \in kv[req[r].id] :
           now <= d.resetTime =>
             \A d2 \in kv'[req[r].id] :
               d2.resetTime <= d.resetTime /\ d2.count >= d.count]_vars

(* ---- restart in the middle of a window ---- *)
\* C25: the requests admitted for an identifier in one window, by the isolate
\* that was dropped and by the isolate loaded after it together, do not exceed
\* maxRequests (the store answering every get and put).
C25_LimitHoldsAcrossRestart ==
  \A i \in Ids : \A R \in DOMAIN admitted[i] : admitted[i][R] <= maxRequests

(* ---- when the janitor sweeps ---- *)
\* request r arrives in this step and reaches the janitor call of line 286
CallsJanitor(r) == req[r].pc = "idle" /\ req'[r].pc \in {"kvGet", "kvPut", "rlDone"}

\* the entries of idle clients whose window ended more than the grace period
\* before t
ExpiredIdle(t) == {R \in DOMAIN idleEntries : t > R + GRACE_MS}

\* C26: while less than CLEANUP_INTERVAL has passed since the last sweep a
\* call of the janitor deletes nothing and leaves lastCleanupTime alone; a
\* call at least CLEANUP_INTERVAL after the last sweep sets lastCleanupTime
\* to now. Two sweeps are therefore at least CLEANUP_INTERVAL apart.
C26_SweepEveryFiveMinutes ==
  [][/\ now - lastCleanupTime < CLEANUP_INTERVAL =>
          /\ lastCleanupTime' = lastCleanupTime
          /\ idleEntries' = idleEntries
          /\ \A i \in Ids : rateLimitCache[i] # 0 => rateLimitCache'[i] = rateLimitCache[i]
     /\ Swept =>
          /\ lastCleanupTime' = now
          /\ lastCleanupTime' - lastCleanupTime >= CLEANUP_INTERVAL
     /\ \A r \in Reqs :
          (CallsJanitor(r) /\ now - lastCleanupTime >= CLEANUP_INTERVAL) =>
            lastCleanupTime' = now]_vars

\* a request has just gone through the janitor call, less than
\* CLEANUP_INTERVAL after the last sweep, and entries that expired more than
\* the grace period ago are still in the cache
C26_Witness ==
  \E r \in Reqs :
    /\ JustReturned(r) /\ req[r].now = now
    /\ lastCleanupTime > 0 /\ lastCleanupTime < now
    /\ ExpiredIdle(now) # {}

Arrives(r) == req[r].pc = "idle" /\ req'[r].pc # "idle"

C29_ProbedBeforeReuse ==
  [][\A r \in Reqs :
       (Handed(r) /\ req'[r].via # "launch") =>
         /\ req[r].pc = "probe"
         /\ req'[r].browser \in valid]_vars

(* ---- waiters are served ---- *)
\* the promise of lines 87-89 that request r awaits is pending: r is in the
\* queue, or processQueue has taken it off and is launching for it
Waiting(r) == req[r].pc \in {"queued", "qlaunch"}

\* C30: every request that joined the queue is in the end resolved with a
\* session or rejected, every awaited call returning; and whenever a request
\* is in the queue the slot is taken.
C30_WaitersServed ==
  /\ [](browserQueue # <<>> => browserInUse)
  /\ \A r \in Reqs : Waiting(r) ~> ~Waiting(r)

\* a launch failed while two requests were queued: the slot went to the
\* older one, for which a launch is under way, and the other still waits
C30_Witness ==
  \E r \in Reqs :
    /\ req[r].pc = "qlaunch"
    /\ browserQueue # <<>> /\ browserInUse
    /\ \A n \in 1..Len(browserQueue) : browserQueue[n] # r

(* ---- KV traffic as documented ---- *)
\* the checkRateLimit call of request r takes its decision in this step: it
\* is rejected, or admitted with or without a put
Decides(r) ==
  /\ req[r].pc \in {"idle", "kvGet"}
  /\ req'[r].pc \in {"kvPut", "rlDone"}

\* C31: KV traffic per request as the setup guide documents it. KV is read
\* only on a cache miss; the first request of a new identifier does one read
\* and one write; a request that finds an entry synced within the documented
\* interval does no KV operation; a request that finds an entry synced longer
\* ago does one write.
C31_DocumentedKvTraffic ==
  [][\A r \in Reqs :
       /\ (req[r].pc = "idle" /\ req'[r].pc = "kvGet") => req'[r].pre = {}
       /\ (req[r].pc = "idle" /\ req'[r].pc \in {"kvPut", "rlDone"}) => req'[r].pre # {}
       /\ (GetReturns(r) /\ kv[req[r].id] = {} /\ ~req'[r].kvFailed) => req'[r].pc = "kvPut"
       /\ (Decides(r) /\ req'[r].allowed) =>
            LET wrote == req'[r].pc = "kvPut" \/ DeferredPuts(r) # {}
            IN \A e0 \in req'[r].pre :
                 wrote <=> (req'[r].now - e0.lastSync > DOC_SYNC_INTERVAL)]_vars

(* ---- the count of a local entry ---- *)
\* the calls of identifier i that were admitted into the window ending at R
\* and are suspended at their put
AwaitingPut(i, R) ==
  {r \in Reqs : req[r].pc = "kvPut" /\ req[r].id = i
                  /\ \E d \in req[r].put : d.resetTime = R}

\* C32: whenever the isolate is between two runs of code, every entry of the
\* Map has 0 <= count <= maxRequests, and its count is the count its window
\* was created with plus the calls admitted into that window: those that
\* returned allowed and those suspended at their put.
C32_CountIsBasePlusAdmitted ==
  \A i \in Ids : \A e \in EntryOf(i) :
    /\ 0 <= e.count /\ e.count <= maxRequests
    /\ e.count = BaseOf(i, e.resetTime) + AdmittedIn(i, e.resetTime)
                   + Cardinality(AwaitingPut(i, e.resetTime))

(* ---- quota is not refunded ---- *)
\* request r was admitted by checkRateLimit and has not been answered yet
AdmittedInFlight(r) ==
  \/ req[r].pc = "rlDone" /\ req[r].allowed
  \/ req[r].pc \in {"queued", "probe", "launch", "qlaunch", "render"}

\* the answer to request r says that it failed after its admission
FailedAfterAdmission(rq) ==
  /\ rq.pc = "done"
  /\ \/ rq.kind = "body" /\ rq.status = 400
     \/ rq.kind = "upstream" /\ rq.status = 429
     \/ rq.kind = "error" /\ rq.status = 500

\* C33: the step that answers an admitted request with 400 (body), 429
\* (upstream) or 500 (acquisition, render) changes neither the Map nor KV,
\* and once the request is answered the entry of its identifier still counts
\* it: count = maxRequests - the remaining it was admitted with.
C33_QuotaNotRefunded ==
  /\ [][\A r \in Reqs :
          (AdmittedInFlight(r) /\ FailedAfterAdmission(req'[r])) =>
            /\ kv' = kv
            /\ \A i \in Ids : EntryOf(i)' = EntryOf(i)]_vars
  /\ [](\A r \in Reqs :
          FailedAfterAdmission(req[r]) =>
            /\ EntryOf(req[r].id) # {}
            /\ \A e \in EntryOf(req[r].id) :
                 /\ e.resetTime = req[r].resetTime
                 /\ e.count = maxRequests - req[r].remaining)

\* the render of the request that took the last place of its window failed:
\* the window is full all the same
C33_Witness ==
  \E r \in Reqs :
    /\ FailedAfterAdmission(req[r])
    /\ req[r].kind = "error" /\ req[r].acquired /\ req[r].remaining = 0
    /\ \A e \in EntryOf(req[r].id) : e.count = maxRequests

(* ---- the slot and the queue ---- *)
\* C34: whenever a request is in the queue the slot is marked in use, and a
\* request that calls acquireBrowser while somebody is queued joins the queue
\* behind them: it is given neither a probe nor a launch nor the session.
C34_QueuedImpliesInUse ==
  [][/\ browserQueue # <<>> => browserInUse
     /\ browserQueue' # <<>> => browserInUse'
     /\ \A r \in Reqs :
          (req[r].pc = "rlDone" /\ req'[r].pc \notin {"rlDone", "done"}
             /\ browserQueue # <<>>) =>
            /\ req'[r].pc = "queued"
            /\ browserQueue'[Len(browserQueue')] = r
            /\ SubSeq(browserQueue', 1, Len(browserQueue)) = browserQueue]_vars

\* the slot is held by a request probing the retained session while another
\* request waits, and a third has just joined the queue behind it
C34_Witness ==
  /\ \E r \in Reqs : req[r].pc = "probe"
  /\ Len(browserQueue) >= 2
  /\ browserInUse

(* ---- the lease ---- *)
\* every request that came in has been answered
AllFinished == \A r \in Reqs : req[r].pc \in {"idle", "done"}

\* C35: browserInUse is true exactly while some request renders on the
\* session or has a probe or a launch in flight for it, and once every
\* request is answered browserInUse is false and the queue is empty.
C35_LeaseNotLeaked ==
  /\ browserInUse <=> SlotOwners # {}
  /\ \A r \in Reqs : req[r].pc = "queued" <=> \E n \in 1..Len(browserQueue) : browserQueue[n] = r
  /\ AllFinished => (~browserInUse /\ browserQueue = <<>>)

\* the last request in flight has been answered with the error of its failed
\* launch, after another had rendered: the slot is free and nobody waits
C35_Witness ==
  /\ AllFinished
  /\ \E r \in Reqs :
       req[r].pc = "done" /\ req[r].kind = "error" /\ ~req[r].acquired
  /\ nextSession > 1
  /\ ~browserInUse /\ browserQueue = <<>>

(* ---- a failed launch ---- *)
\* the launch made for request r rejects in this step
LaunchFails(r) == req[r].pc \in {"launch", "qlaunch"} /\ req'[r].pc = "done"

\* C36: a failed launch fails the request it was made for and no other; the
\* slot is freed, or goes with a launch of its own to the oldest waiter, the
\* others staying queued in order. A waiter leaves the queue only with the
\* session or with a launch made for it, never rejected outright; and the
\* cached session is non-null whenever a holder releases.
C36_LaunchFailureIsLocal ==
  [][/\ \A r \in Reqs :
          LaunchFails(r) =>
            /\ \A r2 \in Reqs \ {r} : req'[r2].pc # "done"
            /\ IF browserQueue = <<>>
               THEN ~browserInUse' /\ browserQueue' = <<>>
               ELSE /\ req'[Head(browserQueue)].pc = "qlaunch"
                    /\ browserQueue' = Tail(browserQueue)
                    /\ browserInUse'
     /\ \A r \in Reqs :
          (req[r].pc = "queued" /\ req'[r].pc # "queued") =>
            req'[r].pc \in {"render", "qlaunch"}
     /\ (\E r \in Reqs : Released(r)) => cachedBrowser # 0]_vars

\* a launch has failed and its request is answered with the error; the oldest
\* waiter has a launch of its own under way and a second waiter is still queued
C36_Witness ==
  \E r, r2 \in Reqs :
    /\ req[r].pc = "done" /\ req[r].kind = "error" /\ ~req[r].acquired
    /\ req[r2].pc = "qlaunch"
    /\ browserInUse /\ Len(browserQueue) = 1

(* ---- late writes ---- *)
\* C37: a put handed to ctx.waitUntil that completes late never replaces the
\* KV record by one with an older resetTime, or by one of the same window
\* with a lower count; and once no put is in flight, the KV record of the
\* window of the local entry is not ahead of the entry's count.
C37_LateWriteKeepsNewerRecord ==
  /\ [][\A w \in bgWrites \ bgWrites' :
          \A d \in kv[w.id] : \A d2 \in kv'[w.id] :
            /\ d2.resetTime >= d.resetTime
            /\ d2.resetTime = d.resetTime => d2.count >= d.count]_vars
  /\ [](\A i \in Ids :
          (bgWrites = {} /\ ~Checking(i)) =>
            \A e \in EntryOf(i) : \A d \in kv[i] :
              d.resetTime = e.resetTime => d.count <= e.count)


(* ---- identifiers do not interfere ---- *)
\* the windows of identifier i its earlier calls created or adopted that are
\* still running at time t
RunningWindows(i, t) == {R \in DOMAIN winBase[i] : R >= t}

\* what the call of identifier i at time t is to return by the history of i
\* alone: the window it falls in and the count that window has before it. The
\* window is the running one of the earlier calls of i; without one, the one
\* of the KV record of i when the record was read and is still running; a
\* fresh one otherwise.
OwnHistoryResult(i, t, readFailed) ==
  LET run == RunningWindows(i, t)
      rec == {d \in kv[i] : ~readFailed /\ t <= d.resetTime}
  IN IF run # {}
     THEN LET R == CHOOSE x \in run : \A y \in run : y <= x
          IN [resetTime |-> R, prior |-> BaseOf(i, R) + AdmittedIn(i, R)]
     ELSE IF rec # {}
     THEN LET d == CHOOSE x \in rec : TRUE
          IN [resetTime |-> d.resetTime, prior |-> d.count]
     ELSE [resetTime |-> t + windowMs, prior |-> 0]

\* C38: with one call of an identifier at a time, among requests of other
\* clients and the sweeps they trigger, the decision of every call is the one
\* the identifier's own history, the clock and its KV record give: the window
\* is the identifier's running one (else the one of its KV record, else a
\* fresh one), the call is admitted exactly when that window counts fewer
\* than maxRequests, and remaining is maxRequests less the calls the window
\* counts, this one included.
C38_OwnHistoryDecides ==
  [][\A r \in Reqs :
       /\ Decides(r) =>
            LET rq == req'[r]
                h  == OwnHistoryResult(rq.id, rq.now, rq.kvFailed)
            IN /\ (rq.pc = "kvPut" \/ rq.allowed) <=> h.prior < maxRequests
               /\ rq.pc = "kvPut" =>
                    rq.put = {[count |-> h.prior + 1, resetTime |-> h.resetTime]}
               /\ rq.pc = "rlDone" =>
                    /\ rq.resetTime = h.resetTime
                    /\ rq.remaining =
                         IF rq.allowed THEN maxRequests - h.prior - 1 ELSE 0
       /\ (req[r].pc = "kvPut" /\ req'[r].pc = "rlDone") =>
            LET rq == req'[r]
            IN /\ rq.allowed
               /\ \E d \in req[r].put :
                    /\ rq.resetTime = d.resetTime
                    /\ rq.remaining = maxRequests - d.count]_vars

\* a call returns admitted after the sweep of another client's request took
\* its entry out of the Map while it was suspended at its put
C38_Witness ==
  \E r \in Reqs :
    /\ JustReturned(r) /\ req[r].allowed
    /\ rateLimitCache[req[r].id] = 0
    /\ lastCleanupTime = now
    /\ idleEntries # EmptyBag

====
